---- MODULE Spec2Model ----
(***************************************************************************)
(* tower_allowed_hosts: the AllowedHost service (src/src/service.rs).      *)
(*                                                                         *)
(* A request carries three multi-valued headers (Forwarded,                *)
(* X-Forwarded-Host, Host).  AllowedHost::call resolves one authority from *)
(* them (get_authority), asks the decision cache or the matchers whether   *)
(* it is allowed, attaches it to the request when it is, and returns an    *)
(* AllowedHostFuture whose poll turns the decision into the response or an *)
(* error.                                                                  *)
(*                                                                         *)
(* Header values and hosts are strings, modelled as sequences of           *)
(* one-character strings so that split, trim and the URI parser work on    *)
(* them character by character.                                            *)
(***************************************************************************)
EXTENDS Integers, Sequences, FiniteSets

\* Option<T>: None is the empty tuple, Some(x) the tuple of x alone
None == <<>>
Some(x) == <<x>>
IsSome(o) == o # None
Unwrap(o) == o[1]

(***************************************************************************)
(* Strings                                                                 *)
(***************************************************************************)

\* A byte outside visible ASCII (obs-text): HeaderValue::to_str fails on it.
NonAscii == "0xFF"

UpperChars == <<"A", "B", "H", "O", "S", "T">>
LowerChars == <<"a", "b", "h", "o", "s", "t">>

\* u8::to_ascii_lowercase on one character
ToAsciiLowerChar(c) ==
    IF \E i \in 1..Len(UpperChars) : UpperChars[i] = c
    THEN LowerChars[CHOOSE i \in 1..Len(UpperChars) : UpperChars[i] = c]
    ELSE c

\* str::to_ascii_lowercase
ToAsciiLower(s) == [i \in 1..Len(s) |-> ToAsciiLowerChar(s[i])]

\* str::eq_ignore_ascii_case
EqIgnoreAsciiCase(s, t) == ToAsciiLower(s) = ToAsciiLower(t)

\* str::contains(char)
Contains(s, c) == \E i \in 1..Len(s) : s[i] = c

\* position of the first c in s, 0 when there is none
FindChar(s, c) ==
    IF Contains(s, c) THEN CHOOSE i \in 1..Len(s) : s[i] = c /\ \A j \in 1..(i - 1) : s[j] # c
    ELSE 0

\* str::split(char): the pieces between the separators, in order; the empty
\* string splits into one empty piece
RECURSIVE Split(_, _)
Split(s, c) ==
    LET i == FindChar(s, c) IN
    IF i = 0 THEN <<s>>
    ELSE <<SubSeq(s, 1, i - 1)>> \o Split(SubSeq(s, i + 1, Len(s)), c)

\* str::split_once(char): None, or the text before and after the first c
SplitOnce(s, c) ==
    LET i == FindChar(s, c) IN
    IF i = 0 THEN None
    ELSE Some(<<SubSeq(s, 1, i - 1), SubSeq(s, i + 1, Len(s))>>)

\* str::trim_matches for a set of characters: drop the leading and the
\* trailing characters that lie in C
TrimChars(s, C) ==
    LET keep == {i \in 1..Len(s) : s[i] \notin C} IN
    IF keep = {} THEN <<>>
    ELSE SubSeq(s, CHOOSE i \in keep : \A j \in keep : i <= j,
                   CHOOSE i \in keep : \A j \in keep : j <= i)

\* str::trim (the space is the whitespace of the model's characters)
Trim(s) == TrimChars(s, {" "})

\* str::trim_matches('"')
TrimQuotes(s) == TrimChars(s, {"\""})

\* HeaderValue::to_str: the text, or None when a byte is not visible ASCII
ToStr(h) == IF Contains(h, NonAscii) THEN None ELSE Some(h)

(***************************************************************************)
(* http::Uri, as used by validate_and_parse_hosts (`first_host.parse::<Uri>`)*)
(* The parser is followed on the characters the model uses; IPv6 brackets, *)
(* percent signs and the length limits of the crate are outside them.      *)
(***************************************************************************)

\* characters that are no URI character (URI_CHARS maps them to 0)
UriInvalid == {" ", "\"", NonAscii}
\* characters that are no scheme character (SCHEME_CHARS maps them to 0)
SchemeInvalid == {" ", "\"", "/", "?", "#", "@", ",", ";", "=", "*", NonAscii}
\* characters PathAndQuery rejects in the path and in the query
PathInvalid == {" ", NonAscii}
QueryInvalid == {" ", "\"", NonAscii}

\* position of the first character of s that lies in set C, Len(s) + 1 if none
FirstIn(s, C) ==
    IF \E i \in 1..Len(s) : s[i] \in C
    THEN CHOOSE i \in 1..Len(s) : s[i] \in C /\ \A j \in 1..(i - 1) : s[j] \notin C
    ELSE Len(s) + 1

\* Scheme2::parse: the length of the scheme when s starts with `scheme://`,
\* None otherwise (http:// and https:// are instances of the general loop);
\* p is the position of the first character that cannot continue a scheme
scheme_at(s, p) ==
    IF /\ p <= Len(s)
       /\ s[p] = ":"
       /\ Len(s) >= p + 2
       /\ s[p + 1] = "/"
       /\ s[p + 2] = "/"
    THEN Some(p - 1)
    ELSE None

SchemeLen(s) ==
    IF Len(s) > 3 THEN scheme_at(s, FirstIn(s, SchemeInvalid \cup {":"})) ELSE None

\* the checks of Authority::parse on the text before the first of / ? #: no
\* invalid character, at most one colon after the last @, something after it
LastAt(pre) ==
    IF Contains(pre, "@")
    THEN CHOOSE i \in 1..Len(pre) : pre[i] = "@" /\ \A j \in (i + 1)..Len(pre) : pre[j] # "@"
    ELSE 0

authority_checks(pre, lastAt) ==
    IF \E i \in 1..Len(pre) : pre[i] \in UriInvalid THEN None
    ELSE IF Cardinality({i \in (lastAt + 1)..Len(pre) : pre[i] = ":"}) > 1 THEN None
    ELSE IF Len(pre) > 0 /\ lastAt = Len(pre) THEN None
    ELSE Some(Len(pre))

authority_prefix(pre) == authority_checks(pre, LastAt(pre))

\* Authority::parse: the length of the authority at the start of s, or None
\* for an invalid authority
AuthorityEnd(s) == authority_prefix(SubSeq(s, 1, FirstIn(s, {"/", "?", "#"}) - 1))

\* PathAndQuery::from_shared: the path and the query (None when there is no
\* `?`), the fragment cut off; None for an invalid character
path_and_query(pathPart, hasQuery, queryPart) ==
    IF \E i \in 1..Len(pathPart) : pathPart[i] \in PathInvalid THEN None
    ELSE IF hasQuery /\ \E i \in 1..Len(queryPart) : queryPart[i] \in QueryInvalid
         THEN None
    ELSE Some([path |-> pathPart, query |-> IF hasQuery THEN Some(queryPart) ELSE None])

UpToFragment(rest) == SubSeq(rest, 1, FirstIn(rest, {"#"}) - 1)

path_and_query_at(s, cut) ==
    path_and_query(SubSeq(s, 1, cut - 1),
                   cut <= Len(s) /\ s[cut] = "?",
                   UpToFragment(SubSeq(s, cut + 1, Len(s))))

ParsePathAndQuery(s) == path_and_query_at(s, FirstIn(s, {"?", "#"}))

\* What the accessors of a parsed Uri return: scheme() (None or the scheme),
\* authority() (None when empty), path() and query()
MkUri(scheme, authority, pq) ==
    [scheme |-> scheme,
     authority |-> IF authority = <<>> THEN None ELSE Some(authority),
     path |-> IF pq.path = <<>>
              THEN (IF scheme # None \/ pq.query # None THEN <<"/">> ELSE <<>>)
              ELSE pq.path,
     query |-> pq.query]

EmptyPathAndQuery == [path |-> <<>>, query |-> None]

\* the Uri of a path-only target, None when its path and query are invalid
path_only(pq) == IF pq = None THEN None ELSE Some(MkUri(None, <<>>, Unwrap(pq)))

\* parse_full without a scheme: the whole text must be the authority
no_scheme(s, authority_end) ==
    IF authority_end = None THEN None
    ELSE IF Unwrap(authority_end) # Len(s) THEN None
    ELSE Some(MkUri(None, s, EmptyPathAndQuery))

absolute_uri(scheme, authority, pq) ==
    IF pq = None THEN None ELSE Some(MkUri(Some(scheme), authority, Unwrap(pq)))

\* parse_full after a scheme: an authority is required, the rest is the path
\* and the query
with_scheme(scheme, rest, authority_end) ==
    IF authority_end = None THEN None
    ELSE IF Unwrap(authority_end) = 0 THEN None
    ELSE absolute_uri(scheme,
                      SubSeq(rest, 1, Unwrap(authority_end)),
                      ParsePathAndQuery(SubSeq(rest, Unwrap(authority_end) + 1, Len(rest))))

after_scheme(scheme, rest) == with_scheme(scheme, rest, AuthorityEnd(rest))

parse_full(s, n) ==
    IF n = None THEN no_scheme(s, AuthorityEnd(s))
    ELSE after_scheme(SubSeq(s, 1, Unwrap(n)), SubSeq(s, Unwrap(n) + 4, Len(s)))

\* Uri::from_str (from_shared and parse_full): the parsed Uri or None
ParseUri(s) ==
    IF Len(s) = 0 THEN None
    ELSE IF s = <<"/">> THEN Some(MkUri(None, <<>>, [path |-> <<"/">>, query |-> None]))
    ELSE IF s = <<"*">> THEN Some(MkUri(None, <<>>, [path |-> <<"*">>, query |-> None]))
    ELSE IF s[1] = "/" THEN path_only(ParsePathAndQuery(s))
    ELSE parse_full(s, SchemeLen(s))

(***************************************************************************)
(* The extractor                                                           *)
(***************************************************************************)

\* validate_uri without the look for '@' in the authority
validate_uri_userinfo_kept(uri) ==
    IF \/ (uri.path # <<"/">> /\ uri.path # <<>>)
       \/ uri.query # None
       \/ uri.scheme # None
    THEN None
    ELSE uri.authority

\* the checks of validate_and_parse_hosts on the parsed Uri
validate_uri(uri) ==
    IF \/ (uri.path # <<"/">> /\ uri.path # <<>>)
       \/ uri.query # None
       \/ uri.scheme # None
    THEN None
    ELSE IF uri.authority = None THEN None
    ELSE IF Contains(Unwrap(uri.authority), "@") THEN None
    ELSE uri.authority

validate_parsed(parsed) == IF parsed = None THEN None ELSE validate_uri(Unwrap(parsed))

\* validate_and_parse_hosts without the early return on a second host
validate_and_parse_hosts_no_reject(obtained_hosts, reject_multiple) ==
    IF Len(obtained_hosts) = 0 THEN None
    ELSE validate_parsed(ParseUri(obtained_hosts[1]))

\* validate_and_parse_hosts parsing the last obtained host instead of the first
validate_and_parse_hosts_last(obtained_hosts, reject_multiple) ==
    IF Len(obtained_hosts) = 0 THEN None
    ELSE IF reject_multiple /\ Len(obtained_hosts) > 1 THEN None
    ELSE validate_parsed(ParseUri(obtained_hosts[Len(obtained_hosts)]))

\* validate_and_parse_hosts: the authority of the first obtained host, or None
validate_and_parse_hosts(obtained_hosts, reject_multiple) ==
    IF Len(obtained_hosts) = 0 THEN None
    ELSE IF reject_multiple /\ Len(obtained_hosts) > 1 THEN None
    ELSE validate_parsed(ParseUri(obtained_hosts[1]))

\* validate_and_parse_hosts on the hosts a header loop obtained, None when the
\* loop returned early
validate_obtained(obtained_hosts, reject_multiple) ==
    IF obtained_hosts = None THEN None
    ELSE validate_and_parse_hosts(Unwrap(obtained_hosts), reject_multiple)

\* the host values that one Forwarded header contributes: for every
\* comma-separated element and every `;`-separated part `key=value` of it whose
\* trimmed key is "host" in any letter case, the trimmed and unquoted value
forwarded_part(key_value) ==
    IF /\ key_value # None
       /\ EqIgnoreAsciiCase(Trim(Unwrap(key_value)[1]), <<"h", "o", "s", "t">>)
    THEN <<TrimQuotes(Trim(Unwrap(key_value)[2]))>>
    ELSE <<>>

RECURSIVE forwarded_parts(_)
forwarded_parts(parts) ==
    IF parts = <<>> THEN <<>>
    ELSE forwarded_part(SplitOnce(Head(parts), "=")) \o forwarded_parts(Tail(parts))

RECURSIVE forwarded_elements(_)
forwarded_elements(elements) ==
    IF elements = <<>> THEN <<>>
    ELSE forwarded_parts(Split(Head(elements), ";")) \o forwarded_elements(Tail(elements))

\* the loop of extract_from_forwarded over headers.get_all(FORWARDED): the
\* obtained hosts, or None as soon as a header is not visible ASCII
RECURSIVE forwarded_hosts(_, _)
forwarded_hosts(headers, obtained_hosts) ==
    IF headers = <<>> THEN Some(obtained_hosts)
    ELSE IF ToStr(Head(headers)) = None THEN None
    ELSE forwarded_hosts(Tail(headers),
             obtained_hosts \o forwarded_elements(Split(Head(headers), ",")))

\* extract_from_forwarded
extract_from_forwarded(headers, reject_multiple) ==
    validate_obtained(forwarded_hosts(headers.forwarded, <<>>), reject_multiple)

\* header_str.split(',').map(|s| s.trim().to_string())
TrimAll(pieces) == [i \in 1..Len(pieces) |-> Trim(pieces[i])]

\* the loop of extract_from_x_forwarded_host and of extract_from_host over
\* headers.get_all(..): the obtained hosts, or None as soon as a header is not
\* visible ASCII
RECURSIVE comma_hosts(_, _)
comma_hosts(headers, obtained_hosts) ==
    IF headers = <<>> THEN Some(obtained_hosts)
    ELSE IF ToStr(Head(headers)) = None THEN None
    ELSE comma_hosts(Tail(headers), obtained_hosts \o TrimAll(Split(Head(headers), ",")))

\* extract_from_x_forwarded_host
extract_from_x_forwarded_host(headers, reject_multiple) ==
    validate_obtained(comma_hosts(headers.x_forwarded_host, <<>>), reject_multiple)

\* extract_from_host
extract_from_host(headers, reject_multiple) ==
    validate_obtained(comma_hosts(headers.host, <<>>), reject_multiple)

\* get_authority asking X-Forwarded-Host before Forwarded
get_authority_x_first(headers, layer) ==
    LET f == IF layer.use_forwarded
             THEN extract_from_forwarded(headers, layer.reject_multiple_hosts) ELSE None
        x == IF layer.use_x_forwarded_host
             THEN extract_from_x_forwarded_host(headers, layer.reject_multiple_hosts)
             ELSE None
    IN  IF x # None THEN x
        ELSE IF f # None THEN f
        ELSE extract_from_host(headers, layer.reject_multiple_hosts)

\* get_authority reading the Forwarded header without looking at use_forwarded
get_authority_flag_ignored(headers, layer) ==
    LET f == extract_from_forwarded(headers, layer.reject_multiple_hosts)
        x == IF layer.use_x_forwarded_host
             THEN extract_from_x_forwarded_host(headers, layer.reject_multiple_hosts)
             ELSE None
    IN  IF f # None THEN f
        ELSE IF x # None THEN x
        ELSE extract_from_host(headers, layer.reject_multiple_hosts)

\* get_authority going on to the authority of the request target when no
\* header yields a host
get_authority_uri_fallback(headers, layer) ==
    LET f == IF layer.use_forwarded
             THEN extract_from_forwarded(headers, layer.reject_multiple_hosts) ELSE None
        x == IF layer.use_x_forwarded_host
             THEN extract_from_x_forwarded_host(headers, layer.reject_multiple_hosts)
             ELSE None
        h == extract_from_host(headers, layer.reject_multiple_hosts)
    IN  IF f # None THEN f
        ELSE IF x # None THEN x
        ELSE IF h # None THEN h
        ELSE headers.uri

\* the first of three optional authorities that is present
first_some(a, b, c) == IF a # None THEN a ELSE IF b # None THEN b ELSE c

\* get_authority: Forwarded if enabled, then X-Forwarded-Host if enabled, then
\* Host; a source that yields nothing falls through to the next
get_authority(headers, layer) ==
    first_some(
        IF layer.use_forwarded
        THEN extract_from_forwarded(headers, layer.reject_multiple_hosts) ELSE None,
        IF layer.use_x_forwarded_host
        THEN extract_from_x_forwarded_host(headers, layer.reject_multiple_hosts) ELSE None,
        extract_from_host(headers, layer.reject_multiple_hosts))

(***************************************************************************)
(* Matchers (src/src/matcher.rs)                                           *)
(***************************************************************************)

Any == [kind |-> "Any"]
Unit == [kind |-> "Unit"]
Exact(value) == [kind |-> "Exact", value |-> value]
And(left, right) == [kind |-> "And", left |-> left, right |-> right]
Or(left, right) == [kind |-> "Or", left |-> left, right |-> right]

RECURSIVE matches_value(_, _)
\* matches_value with And answering what its left matcher answers
matches_value_and_left(m, value) ==
    CASE m.kind = "Any" -> TRUE
      [] m.kind = "Unit" -> FALSE
      [] m.kind = "Exact" -> m.value = value
      [] m.kind = "And" -> matches_value(m.left, value)
      [] m.kind = "Or" -> matches_value(m.left, value) \/ matches_value(m.right, value)

\* Matcher::matches_value of Any, (), String / &str, And and Or
matches_value(m, value) ==
    CASE m.kind = "Any" -> TRUE
      [] m.kind = "Unit" -> FALSE
      [] m.kind = "Exact" -> m.value = value
      [] m.kind = "And" -> matches_value(m.left, value) /\ matches_value(m.right, value)
      [] m.kind = "Or" -> matches_value(m.left, value) \/ matches_value(m.right, value)

\* all() in place of any()
all_match(matchers, host_val) ==
    \A i \in 1..Len(matchers) : matches_value(matchers[i], host_val)

\* self.layer.matchers.iter().any(|m| m.matches_host(host_val.as_str()))
any_matches(matchers, host_val) ==
    \E i \in 1..Len(matchers) : matches_value(matchers[i], host_val)

\* the KeyValueMatcher (key_matcher, value_matcher)
Pair(key_matcher, value_matcher) ==
    [kind |-> "Pair", key_matcher |-> key_matcher, value_matcher |-> value_matcher]

\* the pair matcher asking the keys and the values of the map apart
pair_matches_apart(key_matcher, value_matcher, values) ==
    /\ \E k \in DOMAIN values : matches_value(key_matcher, k)
    /\ \E k \in DOMAIN values : matches_value(value_matcher, values[k])

\* values.iter().any(|(k, v)| key_matcher.matches_value(k) &&
\* value_matcher.matches_value(v))
pair_matches(key_matcher, value_matcher, values) ==
    \E k \in DOMAIN values :
        matches_value(key_matcher, k) /\ matches_value(value_matcher, values[k])

\* KeyValueMatcher::matches_key_value on a map of the parameters of a
\* Forwarded entry
RECURSIVE matches_key_value(_, _)
matches_key_value(m, values) ==
    CASE m.kind = "Any" -> TRUE
      [] m.kind = "Unit" -> FALSE
      [] m.kind = "Pair" -> pair_matches(m.key_matcher, m.value_matcher, values)
      [] m.kind = "And" ->
             matches_key_value(m.left, values) /\ matches_key_value(m.right, values)
      [] m.kind = "Or" ->
             matches_key_value(m.left, values) \/ matches_key_value(m.right, values)

(***************************************************************************)
(* The decision cache: LruCache<String, bool>, most recently used first    *)
(***************************************************************************)

CacheIndex(entries, key) ==
    IF \E i \in 1..Len(entries) : entries[i].key = key
    THEN CHOOSE i \in 1..Len(entries) : entries[i].key = key
    ELSE 0

Without(entries, i) == SubSeq(entries, 1, i - 1) \o SubSeq(entries, i + 1, Len(entries))

\* LruCache::get: the cached decision, if any
cache_get(entries, key) ==
    LET i == CacheIndex(entries, key) IN
    IF i = 0 THEN None ELSE Some(entries[i].value)

\* LruCache::get leaving the order of the entries alone
cache_touch_order_kept(entries, key) == entries

\* LruCache::get makes the entry it finds the most recently used one
cache_touch(entries, key) ==
    LET i == CacheIndex(entries, key) IN
    IF i = 0 THEN entries ELSE <<entries[i]>> \o Without(entries, i)

\* LruCache::put: update or insert as most recently used; a full cache drops
\* its least recently used entry first
cache_put(entries, cap, key, value) ==
    LET i == CacheIndex(entries, key)
        entry == [key |-> key, value |-> value]
    IN  IF i # 0 THEN <<entry>> \o Without(entries, i)
        ELSE IF Len(entries) >= cap THEN <<entry>> \o SubSeq(entries, 1, cap - 1)
        ELSE <<entry>> \o entries

(***************************************************************************)
(* AllowedHost::call and AllowedHostFuture::poll                           *)
(***************************************************************************)

\* AllowedHostLayer::disable_cache
disable_cache(layer) == [layer EXCEPT !.cache = None]

\* the return of call: the future, the Host extension of the request handed
\* to the inner service, the cache afterwards, whether the decision was read
\* from the cache, and whether inner.call(req) ran to make response_future
returned(host, host_allowed, entries, from_cache) ==
    [fut |-> [host |-> host, host_allowed |-> host_allowed],
     ext |-> IF host_allowed THEN host ELSE None,
     entries |-> entries,
     hit |-> from_cache,
     inner_called |-> TRUE]

\* the cache-hit path of call attaching the Host extension whatever the cached
\* decision is
call_hit_ext_attached(host_val, host_allowed, entries) ==
    [returned(Some(host_val), host_allowed, cache_touch(entries, host_val), TRUE)
        EXCEPT !.ext = Some(host_val)]

\* the cache-hit path of call
call_hit(host_val, host_allowed, entries) ==
    returned(Some(host_val), host_allowed, cache_touch(entries, host_val), TRUE)

\* the cache-miss path of call attaching the Host extension whatever the
\* matchers decide
call_miss_ext_attached(host_val, host_allowed, layer, entries) ==
    [returned(Some(host_val), host_allowed,
              IF layer.cache # None
              THEN cache_put(entries, Unwrap(layer.cache), host_val, host_allowed)
              ELSE entries,
              FALSE)
        EXCEPT !.ext = Some(host_val)]

\* the cache-miss path of call: ask the matchers, then insert into the cache
call_miss(host_val, host_allowed, layer, entries) ==
    returned(Some(host_val), host_allowed,
             IF layer.cache # None
             THEN cache_put(entries, Unwrap(layer.cache), host_val, host_allowed)
             ELSE entries,
             FALSE)

call_lookup(host_val, cached, layer, entries) ==
    IF cached # None THEN call_hit(host_val, Unwrap(cached), entries)
    ELSE call_miss(host_val, any_matches(layer.matchers, host_val), layer, entries)

call_resolved(authority, layer, entries) ==
    IF authority # None
    THEN call_lookup(Unwrap(authority),
                     IF layer.cache # None THEN cache_get(entries, Unwrap(authority))
                     ELSE None,
                     layer, entries)
    ELSE returned(None, FALSE, entries, FALSE)

\* AllowedHost::call on a request with the given headers, for a layer whose
\* cache (if any) holds `entries`
call(headers, layer, entries) == call_resolved(get_authority(headers, layer), layer, entries)

\* poll with the arm of the unresolved host falling into the inner future
poll_unresolved_falls_through(fut, inner_poll) ==
    IF fut.host # None /\ ~fut.host_allowed
    THEN [kind |-> "HostNotAllowed", host |-> Unwrap(fut.host)]
    ELSE inner_poll

\* whether poll polls response_future, the future of the inner service
polls_inner(fut) == fut.host # None /\ fut.host_allowed

\* AllowedHostFuture::poll: the inner future's poll when the host is allowed,
\* otherwise an error at once
poll(fut, inner_poll) ==
    IF fut.host # None /\ fut.host_allowed THEN inner_poll
    ELSE IF fut.host # None THEN [kind |-> "HostNotAllowed", host |-> Unwrap(fut.host)]
    ELSE [kind |-> "FailedToResolveHost"]

\* call in the two parts between which the lock of the cache is free

\* `if let Some(cache) = &self.layer.cache { if let Ok(guard) = cache.lock()`
lock_ok(layer, is_poisoned) == layer.cache # None /\ ~is_poisoned

\* the lookup of call taking a failed lock() for a blocked host
call_begin_fail_closed(authority, layer, entries, is_poisoned) ==
    IF authority = None
    THEN [pc |-> "done", lookup |-> "none", ret |-> returned(None, FALSE, entries, FALSE)]
    ELSE IF layer.cache # None /\ is_poisoned
    THEN [pc |-> "done", lookup |-> "failed",
          ret |-> returned(authority, FALSE, entries, FALSE)]
    ELSE IF lock_ok(layer, is_poisoned) /\ cache_get(entries, Unwrap(authority)) # None
    THEN [pc |-> "done", lookup |-> "hit",
          ret |-> call_hit(Unwrap(authority),
                           Unwrap(cache_get(entries, Unwrap(authority))), entries)]
    ELSE [pc |-> "miss",
          lookup |-> IF layer.cache = None THEN "none" ELSE "miss",
          ret |-> returned(authority, FALSE, entries, FALSE)]

\* call up to the end of its lookup: the return of call if there is no host
\* or the cache has the decision, otherwise the miss that the rest of call
\* works on (the lock is released at the end of the `if let`)
call_begin(authority, layer, entries, is_poisoned) ==
    IF authority = None
    THEN [pc |-> "done", lookup |-> "none", ret |-> returned(None, FALSE, entries, FALSE)]
    ELSE IF lock_ok(layer, is_poisoned) /\ cache_get(entries, Unwrap(authority)) # None
    THEN [pc |-> "done", lookup |-> "hit",
          ret |-> call_hit(Unwrap(authority),
                           Unwrap(cache_get(entries, Unwrap(authority))), entries)]
    ELSE [pc |-> "miss",
          lookup |-> IF layer.cache = None THEN "none"
                     ELSE IF is_poisoned THEN "failed" ELSE "miss",
          ret |-> returned(authority, FALSE, entries, FALSE)]

\* call after a miss remembering every host as allowed
call_end_put_allowed(host_val, layer, entries, is_poisoned) ==
    [insert |-> IF layer.cache = None THEN "none"
                ELSE IF is_poisoned THEN "failed" ELSE "put",
     ret |-> returned(Some(host_val), any_matches(layer.matchers, host_val),
                      IF lock_ok(layer, is_poisoned)
                      THEN cache_put(entries, Unwrap(layer.cache), host_val, TRUE)
                      ELSE entries,
                      FALSE)]

\* call after a miss: ask the matchers, take the lock again and insert
call_end(host_val, layer, entries, is_poisoned) ==
    [insert |-> IF layer.cache = None THEN "none"
                ELSE IF is_poisoned THEN "failed" ELSE "put",
     ret |-> returned(Some(host_val), any_matches(layer.matchers, host_val),
                      IF lock_ok(layer, is_poisoned)
                      THEN cache_put(entries, Unwrap(layer.cache), host_val,
                                     any_matches(layer.matchers, host_val))
                      ELSE entries,
                      FALSE)]

(***************************************************************************)
(* Configurations and requests                                             *)
(***************************************************************************)

\* the most header instances (of the three names together) of one request
MaxHeaders == 2
\* the largest cache capacity
MaxCap == 2

sa == <<"a">>
sb == <<"b">>
hostEq == <<"h", "o", "s", "t", "=">>

\* values of a Host header
HostPool ==
    { sa, <<"A">>,
      <<"a", ",", " ", "b">>,
      <<"u", "@", "a">>,
      <<NonAscii>> }

\* values of an X-Forwarded-Host header
XForwardedHostPool ==
    { sb, <<"c", ",", " ", "a">>, <<"a", "/", "p">> }

\* values of a Forwarded header
ForwardedPool ==
    { hostEq \o sa,
      <<"b", "y", "=", "c", ";", " ", "H", "o", "s", "t", "=", "\"", "b", "\"", ",">>
          \o hostEq \o sa,
      <<"b", "y", "=", "c">> }

SeqsOfLen(S, n) == [1..n -> S]

\* the header maps of the requests: at most MaxHeaders header instances
Requests ==
    UNION { [forwarded : SeqsOfLen(ForwardedPool, n[1]),
             x_forwarded_host : SeqsOfLen(XForwardedHostPool, n[2]),
             host : SeqsOfLen(HostPool, n[3])] :
            n \in {t \in (0..MaxHeaders) \X (0..MaxHeaders) \X (0..MaxHeaders) :
                       t[1] + t[2] + t[3] <= MaxHeaders} }

\* the matcher lists of the layers
MatcherLists ==
    { <<>>, <<Exact(sb), Exact(sa)>>, <<Any>> }

\* AllowedHostLayer::new / new_with_cache_cap followed by the set_* builders
Layers ==
    [matchers : MatcherLists,
     use_forwarded : BOOLEAN,
     use_x_forwarded_host : BOOLEAN,
     reject_multiple_hosts : BOOLEAN,
     cache : {None} \cup {Some(cap) : cap \in 1..MaxCap}]

(***************************************************************************)
(* The service                                                             *)
(***************************************************************************)

VARIABLES
    layer,      \* the AllowedHostLayer of the service
    cache,      \* the entries of the layer's LruCache (empty without a cache)
    pc,         \* "idle", "called" (a future is outstanding) or "ready"
    req,        \* the headers of the request in progress
    fut,        \* the AllowedHostFuture returned by call
    ext,        \* the Host extension of the request handed to the inner service
    plain,      \* fut and ext of the same call on the layer with disable_cache()
    hit,        \* whether call took the decision from the cache
    result,     \* what poll returned last
    inner,      \* whether the inner service was called, and its future polled
    evicted,    \* the key that the call dropped from the cache, if any
    poisoned,   \* whether the Mutex of the cache is poisoned
    threads,    \* the calls in progress on clones of the service
    kv          \* the matchers asked, their input and their answers

vars == <<layer, cache, pc, req, fut, ext, plain, hit, result, inner, evicted, poisoned,
         threads, kv>>

\* no inner service call yet
NoInner == [called |-> FALSE, polled |-> FALSE]

Init ==
    /\ layer \in Layers
    /\ cache = <<>>
    /\ pc = "idle"
    /\ req = None
    /\ fut = None
    /\ ext = None
    /\ plain = None
    /\ hit = FALSE
    /\ result = None
    /\ inner = NoInner
    /\ evicted = None
    /\ poisoned = FALSE
    /\ threads = <<>>
    /\ kv = None

\* the key of an entry of the cache before that the cache after lacks
dropped_key(before, after) ==
    IF \E i \in 1..Len(before) : \A j \in 1..Len(after) : after[j].key # before[i].key
    THEN Some(before[CHOOSE i \in 1..Len(before) :
                         \A j \in 1..Len(after) : after[j].key # before[i].key].key)
    ELSE None

\* what a call leaves behind: c is its return, p the return of the same call
\* on the layer with its cache disabled
CallReturns(headers, c, p) ==
    /\ fut' = Some(c.fut)
    /\ ext' = c.ext
    /\ cache' = c.entries
    /\ plain' = Some([fut |-> p.fut, ext |-> p.ext])
    /\ hit' = c.hit
    /\ req' = Some(headers)
    /\ pc' = "called"
    /\ result' = None
    /\ inner' = [called |-> c.inner_called, polled |-> FALSE]
    /\ evicted' = dropped_key(cache, c.entries)
    /\ UNCHANGED <<layer, poisoned, threads, kv>>

\* AllowedHost::call on one of the given requests
Call(requests) ==
    /\ pc = "idle"
    /\ \E headers \in requests :
           CallReturns(headers, call(headers, layer, cache),
                       call(headers, disable_cache(layer), <<>>))

\* AllowedHostFuture::poll; the inner future is pending or ready
Poll(inner_poll) ==
    /\ pc = "called"
    /\ result' = Some(poll(Unwrap(fut), inner_poll))
    /\ pc' = IF result' = Some([kind |-> "Pending"]) THEN "called" ELSE "ready"
    /\ inner' = [inner EXCEPT !.polled = @ \/ polls_inner(Unwrap(fut))]
    /\ UNCHANGED <<layer, cache, req, fut, ext, plain, hit, evicted, poisoned, threads, kv>>

\* the caller takes the output; the future and the request are dropped
Drop ==
    /\ pc = "ready"
    /\ pc' = "idle"
    /\ req' = None
    /\ fut' = None
    /\ ext' = None
    /\ plain' = None
    /\ hit' = FALSE
    /\ result' = None
    /\ inner' = NoInner
    /\ evicted' = None
    /\ UNCHANGED <<layer, cache, poisoned, threads, kv>>

Next ==
    \/ Call(Requests)
    \/ \E inner_poll \in {[kind |-> "Pending"], [kind |-> "Ok"]} : Poll(inner_poll)
    \/ Drop

Spec == Init /\ [][Next]_vars

(***************************************************************************)
(* The same service fed with every short text as the one Host header of a  *)
(* request, by a layer that allows any host                                *)
(***************************************************************************)

\* the longest Host header value
MaxLen == 5

HostChars == {"a", "@", "/", "?", ":", ",", " "}

HostValues == UNION {SeqsOfLen(HostChars, n) : n \in 0..MaxLen}

HostOnly(value) == [forwarded |-> <<>>, x_forwarded_host |-> <<>>, host |-> <<value>>]

InitHostValue ==
    /\ Init
    /\ layer.matchers = <<Any>>
    /\ layer.cache = None
    /\ ~layer.use_forwarded
    /\ ~layer.use_x_forwarded_host

NextHostValue ==
    \/ Call({HostOnly(value) : value \in HostValues})
    \/ \E inner_poll \in {[kind |-> "Pending"], [kind |-> "Ok"]} : Poll(inner_poll)
    \/ Drop

SpecHostValue == InitHostValue /\ [][NextHostValue]_vars

(***************************************************************************)
(* Calls on clones of the service, which share the cache: a call takes the *)
(* lock of the cache for its lookup and, after a miss, again for its       *)
(* insert; a lock() on a poisoned Mutex is an Err                          *)
(***************************************************************************)

\* the number of clones of the service
NThreads == 2

\* the requests of the clones: one Host header
ThreadRequests == {HostOnly(value) : value \in {sa, sb, <<"A">>, <<"u", "@", "a">>}}

IdleThread ==
    [pc |-> "idle", headers |-> None, fut |-> None, ext |-> None,
     lookup |-> "none", insert |-> "none"]

InitThreads ==
    /\ layer \in Layers
    /\ ~layer.use_forwarded
    /\ ~layer.use_x_forwarded_host
    /\ ~layer.reject_multiple_hosts
    /\ cache = <<>>
    /\ poisoned = FALSE
    /\ threads = [t \in 1..NThreads |-> IdleThread]
    /\ pc = "idle"
    /\ req = None
    /\ fut = None
    /\ ext = None
    /\ plain = None
    /\ hit = FALSE
    /\ result = None
    /\ inner = NoInner
    /\ evicted = None
    /\ kv = None

\* what the lookup of a call leaves behind
Began(t, headers, b) ==
    /\ threads' = [threads EXCEPT ![t] =
                      [pc |-> b.pc, headers |-> Some(headers), fut |-> Some(b.ret.fut),
                       ext |-> b.ret.ext, lookup |-> b.lookup, insert |-> "none"]]
    /\ cache' = b.ret.entries

\* clone t is called: call up to the end of the lookup
Begin(t) ==
    /\ threads[t].pc = "idle"
    /\ \E headers \in ThreadRequests :
           Began(t, headers, call_begin(get_authority(headers, layer), layer, cache, poisoned))
    /\ UNCHANGED <<layer, pc, req, fut, ext, plain, hit, result, inner, evicted, poisoned, kv>>

\* what the rest of a call leaves behind
Ended(t, e) ==
    /\ threads' = [threads EXCEPT ![t] =
                      [@ EXCEPT !.pc = "done", !.fut = Some(e.ret.fut), !.ext = e.ret.ext,
                                !.insert = e.insert]]
    /\ cache' = e.ret.entries

\* clone t goes on after its miss: the rest of call
End(t) ==
    /\ threads[t].pc = "miss"
    /\ Ended(t, call_end(Unwrap(Unwrap(threads[t].fut).host), layer, cache, poisoned))
    /\ UNCHANGED <<layer, pc, req, fut, ext, plain, hit, result, inner, evicted, poisoned, kv>>

\* the future of clone t is polled to its end and dropped
Finish(t) ==
    /\ threads[t].pc = "done"
    /\ threads' = [threads EXCEPT ![t] = IdleThread]
    /\ UNCHANGED <<layer, cache, pc, req, fut, ext, plain, hit, result, inner, evicted,
                   poisoned, kv>>

\* the Mutex of the cache gets poisoned: from now on lock() is an Err
Poison ==
    /\ layer.cache # None
    /\ ~poisoned
    /\ poisoned' = TRUE
    /\ UNCHANGED <<layer, cache, pc, req, fut, ext, plain, hit, result, inner, evicted,
                   threads, kv>>

NextThreads ==
    \/ \E t \in 1..NThreads : Begin(t)
    \/ \E t \in 1..NThreads : End(t)
    \/ \E t \in 1..NThreads : Finish(t)
    \/ Poison

SpecThreads == InitThreads /\ [][NextThreads]_vars

(***************************************************************************)
(* KeyValueMatcher::matches_key_value asked about parameter maps           *)
(***************************************************************************)

\* the most entries of a parameter map
MaxParams == 2

sby == <<"b", "y">>
sc == <<"c">>
ssig == <<"s", "i", "g">>

ParamKeys == {sby, ssig, <<"h", "o", "s", "t">>}
ParamValues == {sc, sa, sby}

\* HashMap<String, String>: the parameters of one Forwarded entry
ParamMaps ==
    UNION {[D -> ParamValues] : D \in {K \in SUBSET ParamKeys : Cardinality(K) <= MaxParams}}

KeyValueMatchers ==
    {Pair(k, v) : k \in {Exact(sby), Exact(ssig), Any}, v \in {Exact(sc), Exact(sby), Unit}}
        \cup {Any, Unit,
              And(Pair(Exact(sby), Exact(sc)), Pair(Exact(ssig), Exact(sa))),
              Or(Pair(Exact(sby), Exact(sc)), Pair(Exact(ssig), Exact(sa)))}

InitKeyValue ==
    /\ layer \in {l \in Layers : l.matchers = <<>> /\ l.cache = None
                                  /\ ~l.use_forwarded /\ ~l.use_x_forwarded_host
                                  /\ ~l.reject_multiple_hosts}
    /\ cache = <<>>
    /\ poisoned = FALSE
    /\ threads = <<>>
    /\ pc = "idle"
    /\ req = None
    /\ fut = None
    /\ ext = None
    /\ plain = None
    /\ hit = FALSE
    /\ result = None
    /\ inner = NoInner
    /\ evicted = None
    /\ kv = None

\* a matcher is asked about a parameter map
MatchKeyValue ==
    /\ \E m \in KeyValueMatchers, values \in ParamMaps :
           kv' = Some([matcher |-> m, values |-> values,
                       result |-> matches_key_value(m, values)])
    /\ UNCHANGED <<layer, cache, pc, req, fut, ext, plain, hit, result, inner, evicted,
                   poisoned, threads>>

NextKeyValue == MatchKeyValue

SpecKeyValue == InitKeyValue /\ [][NextKeyValue]_vars

(***************************************************************************)
(* The same service called with requests that have a version and a request *)
(* target: with HTTP/2 and HTTP/3 the authority of the target is the       *)
(* :authority pseudo header                                                *)
(***************************************************************************)

Versions == {"HTTP/1.0", "HTTP/1.1", "HTTP/2", "HTTP/3"}

\* Request<ReqBody>: headers(), version() and the authority of uri()
TargetRequests ==
    [forwarded : {<<>>, <<hostEq \o sa>>},
     x_forwarded_host : {<<>>, <<sb>>},
     host : {<<>>, <<sa>>, <<sb>>},
     version : Versions,
     uri : {None, Some(sa), Some(sb)}]

InitRequestTarget ==
    /\ Init
    /\ layer.cache = None

NextRequestTarget ==
    \/ Call(TargetRequests)
    \/ \E inner_poll \in {[kind |-> "Pending"], [kind |-> "Ok"]} : Poll(inner_poll)
    \/ Drop

SpecRequestTarget == InitRequestTarget /\ [][NextRequestTarget]_vars

(***************************************************************************)
(* And::new and Or::new over two matchers, asked about one input together  *)
(* with the two matchers themselves                                        *)
(***************************************************************************)

\* matchers of strings
ValueMatchers ==
    {Any, Unit, Exact(sa), Exact(sb), And(Any, Exact(sa)), Or(Exact(sa), Exact(sb))}

\* the strings they are asked about
MatchedValues == {sa, sb, sc, <<>>}

\* the answers of left, of right and of their combinations, as Matcher
combined_values(left, right, value) ==
    [left |-> left, right |-> right, input |-> value,
     key_value |-> FALSE,
     left_result |-> matches_value(left, value),
     right_result |-> matches_value(right, value),
     and_result |-> matches_value(And(left, right), value),
     and_swapped |-> matches_value(And(right, left), value),
     and_self |-> matches_value(And(left, left), value),
     or_result |-> matches_value(Or(left, right), value),
     or_swapped |-> matches_value(Or(right, left), value),
     or_self |-> matches_value(Or(left, left), value)]

\* the same as KeyValueMatcher
combined_key_values(left, right, values) ==
    [left |-> left, right |-> right, input |-> values,
     key_value |-> TRUE,
     left_result |-> matches_key_value(left, values),
     right_result |-> matches_key_value(right, values),
     and_result |-> matches_key_value(And(left, right), values),
     and_swapped |-> matches_key_value(And(right, left), values),
     and_self |-> matches_key_value(And(left, left), values),
     or_result |-> matches_key_value(Or(left, right), values),
     or_swapped |-> matches_key_value(Or(right, left), values),
     or_self |-> matches_key_value(Or(left, left), values)]

\* the matchers and a string are chosen and asked
CombineValue ==
    /\ kv = None
    /\ \E left \in ValueMatchers, right \in ValueMatchers, value \in MatchedValues :
           kv' = Some(combined_values(left, right, value))
    /\ UNCHANGED <<layer, cache, pc, req, fut, ext, plain, hit, result, inner, evicted,
                   poisoned, threads>>

\* the matchers and a parameter map are chosen and asked
CombineKeyValue ==
    /\ kv = None
    /\ \E left \in KeyValueMatchers, right \in KeyValueMatchers, values \in ParamMaps :
           kv' = Some(combined_key_values(left, right, values))
    /\ UNCHANGED <<layer, cache, pc, req, fut, ext, plain, hit, result, inner, evicted,
                   poisoned, threads>>

\* the answers are dropped
Forget ==
    /\ kv # None
    /\ kv' = None
    /\ UNCHANGED <<layer, cache, pc, req, fut, ext, plain, hit, result, inner, evicted,
                   poisoned, threads>>

NextCombine ==
    \/ CombineValue
    \/ CombineKeyValue
    \/ Forget

SpecCombine == InitKeyValue /\ [][NextCombine]_vars


\* call has handled a request: req, fut, ext, plain and hit are those of it
called == pc # "idle"
\* poll has returned Ready
polled == pc = "ready"

Headers == Unwrap(req)
Fut == Unwrap(fut)
Reject == layer.reject_multiple_hosts

\* what each source alone yields for the request
FromForwarded == extract_from_forwarded(Headers, Reject)
FromXForwardedHost == extract_from_x_forwarded_host(Headers, Reject)
FromHost == extract_from_host(Headers, Reject)

ForwardedWins == layer.use_forwarded /\ FromForwarded # None
XForwardedHostWins ==
    ~ForwardedWins /\ layer.use_x_forwarded_host /\ FromXForwardedHost # None

Allowed == Fut.host # None /\ Fut.host_allowed
Unresolved ==
    /\ Fut.host = None
    /\ ~Fut.host_allowed
    /\ ext = None
    /\ result # Some([kind |-> "Ok"])
    /\ polled => result = Some([kind |-> "FailedToResolveHost"])
OnAllowList(host) == \E i \in 1..Len(layer.matchers) : matches_value(layer.matchers[i], host)

\* C1: the host is resolved from Forwarded (if use_forwarded), then
\* X-Forwarded-Host (if use_x_forwarded_host), then Host: the first enabled
\* source that yields a valid host gives the resolved host, the same for every
\* request that differs only in lower-priority headers.
C1_SourcePriority ==
    called =>
        /\ ForwardedWins => Fut.host = FromForwarded
        /\ XForwardedHostWins => Fut.host = FromXForwardedHost
        /\ (~ForwardedWins /\ ~XForwardedHostWins) => Fut.host = FromHost
        /\ ForwardedWins =>
              \A r \in Requests :
                  r.forwarded = Headers.forwarded => get_authority(r, layer) = Fut.host
        /\ XForwardedHostWins =>
              \A r \in Requests :
                  (/\ r.forwarded = Headers.forwarded
                   /\ r.x_forwarded_host = Headers.x_forwarded_host)
                      => get_authority(r, layer) = Fut.host

\* Forwarded and Host both yield a host, different ones, and Forwarded's is
\* the resolved one
C1_Witness ==
    /\ called
    /\ ForwardedWins
    /\ FromHost # None
    /\ FromHost # FromForwarded
    /\ Fut.host = FromForwarded

\* C2: with use_forwarded and use_x_forwarded_host both false, every request
\* with the same Host headers, whatever its Forwarded and X-Forwarded-Host
\* headers, gets the same resolved host and the same decision.
C2_HostOnlyByDefault ==
    (called /\ ~layer.use_forwarded /\ ~layer.use_x_forwarded_host) =>
        \A r \in Requests :
            r.host = Headers.host => call(r, layer, cache).fut = Fut

\* a request whose Forwarded header names a host on the allow-list and whose
\* Host header names another one, blocked by a layer with both flags off
C2_Witness ==
    /\ called
    /\ ~layer.use_forwarded
    /\ ~layer.use_x_forwarded_host
    /\ FromForwarded # None
    /\ Fut.host # None
    /\ FromForwarded # Fut.host
    /\ ~Allowed
    /\ OnAllowList(Unwrap(FromForwarded))

\* C3: a resolved host is allowed iff at least one matcher of the list
\* matches it, on the cache-hit path too; with an empty list, and without a
\* resolved host, nothing is allowed.
C3_AllowedIffSomeMatcher ==
    called =>
        /\ Fut.host # None => (Fut.host_allowed <=> OnAllowList(Unwrap(Fut.host)))
        /\ Fut.host = None => ~Fut.host_allowed
        /\ layer.matchers = <<>> => ~Fut.host_allowed
        /\ polled => (result = Some([kind |-> "Ok"]) <=> Allowed)

\* a host that only the second matcher of the list matches is allowed from
\* the cache
C3_Witness ==
    /\ polled
    /\ Len(layer.matchers) = 2
    /\ Allowed
    /\ ~matches_value(layer.matchers[1], Unwrap(Fut.host))
    /\ hit
    /\ result = Some([kind |-> "Ok"])

\* the request carries no host source that is enabled: no Host header, no
\* host in a Forwarded header if use_forwarded, no X-Forwarded-Host header if
\* use_x_forwarded_host
NoEnabledSource ==
    /\ Headers.host = <<>>
    /\ layer.use_forwarded => forwarded_hosts(Headers.forwarded, <<>>) = Some(<<>>)
    /\ layer.use_x_forwarded_host => Headers.x_forwarded_host = <<>>

\* C4: a request that carries none of the enabled host sources fails with
\* FailedToResolveHost and is never allowed, whatever the matchers and the
\* cache are.
C4_NoSourceUnresolved ==
    (called /\ NoEnabledSource) => Unresolved

\* a request with a Forwarded host but use_forwarded off and no Host header,
\* on a layer that allows any host and has a filled cache
C4_Witness ==
    /\ polled
    /\ NoEnabledSource
    /\ FromForwarded # None
    /\ layer.matchers = <<Any>>
    /\ cache # <<>>
    /\ result = Some([kind |-> "FailedToResolveHost"])

\* the number of values a comma-separated source carries over its header
\* instances
RECURSIVE ValueCount(_)
ValueCount(hs) ==
    IF hs = <<>> THEN 0 ELSE Len(Split(Head(hs), ",")) + ValueCount(Tail(hs))

\* the number of host values the Forwarded headers carry
ForwardedHostCount ==
    IF forwarded_hosts(Headers.forwarded, <<>>) = None THEN 0
    ELSE Len(Unwrap(forwarded_hosts(Headers.forwarded, <<>>)))

Rejected ==
    /\ ~Allowed
    /\ ext = None
    /\ result # Some([kind |-> "Ok"])

\* C5 as stated: with reject_multiple_hosts, a request whose Host headers
\* carry more than one value (in one header or over two) is rejected and never
\* allowed.
C5_HostMultipleRejected ==
    (called /\ Reject /\ ValueCount(Headers.host) > 1) => Rejected

\* C5: with reject_multiple_hosts, a request whose Host headers carry more than
\* one value (in one header or over two) fails with FailedToResolveHost and is
\* never allowed, provided no enabled higher-priority source (Forwarded,
\* X-Forwarded-Host) yields a host.
C5_HostMultipleRejectedAsSource ==
    (/\ called
     /\ Reject
     /\ ValueCount(Headers.host) > 1
     /\ ~ForwardedWins
     /\ ~XForwardedHostWins) => Unresolved

\* one Host header "a, b" whose first value is on the allow-list: the request
\* fails
C5_Witness ==
    /\ polled
    /\ Reject
    /\ Headers.host = << <<"a", ",", " ", "b">> >>
    /\ OnAllowList(sa)
    /\ ~ForwardedWins
    /\ ~XForwardedHostWins
    /\ result = Some([kind |-> "FailedToResolveHost"])

\* C6: with use_forwarded and reject_multiple_hosts, a request whose Forwarded
\* headers carry more than one host value is rejected whatever its
\* X-Forwarded-Host and Host headers are, and no lower-priority source
\* resolves it.
C6_ForwardedMultipleRejected ==
    (/\ called
     /\ layer.use_forwarded
     /\ Reject
     /\ ForwardedHostCount > 1) => (Fut.host = None /\ Rejected)

\* every header instance is visible ASCII
AsciiOnly(hs) == \A i \in 1..Len(hs) : ToStr(hs[i]) # None

\* the first value of a comma-separated source: the first element of its first
\* header instance
FirstCommaValue(hs) ==
    IF hs = <<>> THEN None ELSE Some(Trim(Split(hs[1], ",")[1]))

\* the first host value of the Forwarded headers
FirstForwardedValue(hs) ==
    IF forwarded_hosts(hs, <<>>) = None THEN None
    ELSE IF Unwrap(forwarded_hosts(hs, <<>>)) = <<>> THEN None
    ELSE Some(Unwrap(forwarded_hosts(hs, <<>>))[1])

\* the authority a value stands for, if it is a bare authority
ResolveValue(v) == IF v = None THEN None ELSE validate_parsed(ParseUri(Unwrap(v)))

\* the first value of each source of a request
FirstValues(h) ==
    <<FirstForwardedValue(h.forwarded),
      FirstCommaValue(h.x_forwarded_host),
      FirstCommaValue(h.host)>>

\* the given requests, those with the same first values put together
SameFirstValues(requests) ==
    {{r \in requests : FirstValues(r) = v} : v \in {FirstValues(q) : q \in requests}}

\* each source yields what its first value stands for, and the requests that
\* have the first values of this one get its future
FirstValueDecides(classes) ==
    /\ FromForwarded = ResolveValue(FirstForwardedValue(Headers.forwarded))
    /\ FromXForwardedHost = ResolveValue(FirstCommaValue(Headers.x_forwarded_host))
    /\ FromHost = ResolveValue(FirstCommaValue(Headers.host))
    /\ \A class \in classes :
           Headers \in class => \A r \in class : call(r, layer, cache).fut = Fut

RequestsByFirstValues == SameFirstValues(Requests)

AsciiRequest(h) ==
    AsciiOnly(h.forwarded) /\ AsciiOnly(h.x_forwarded_host) /\ AsciiOnly(h.host)

AsciiRequestsByFirstValues == SameFirstValues({r \in Requests : AsciiRequest(r)})

SelectedValue == Trim(Split(Headers.host[1], ",")[1])

CarriesUserInfo(v) == Contains(v, "@")
CarriesQuery(v) == Contains(v, "?")
\* a "/" that is not the last character: a path other than "/" or the "//"
\* after a scheme
CarriesPathOrScheme(v) == \E i \in 1..(Len(v) - 1) : v[i] = "/"

\* C8: a selected value that carries a scheme, a path other than empty or "/",
\* a query or user-info is never the resolved host and never allowed; the
\* resolved host is the selected value without a trailing "/", free of "@",
\* "/" and "?".
C8_BareAuthority ==
    called =>
        /\ (\/ CarriesUserInfo(SelectedValue)
            \/ CarriesQuery(SelectedValue)
            \/ CarriesPathOrScheme(SelectedValue)) => Unresolved
        /\ Fut.host # None =>
              /\ \A i \in 1..Len(Unwrap(Fut.host)) :
                     Unwrap(Fut.host)[i] \notin {"@", "/", "?"}
              /\ SelectedValue \in {Unwrap(Fut.host), Unwrap(Fut.host) \o <<"/">>}

\* the Host header "a@a" on a layer that allows any host: the request fails
C8_Witness ==
    /\ polled
    /\ Headers.host = << <<"a", "@", "a">> >>
    /\ layer.matchers = <<Any>>
    /\ result = Some([kind |-> "FailedToResolveHost"])

\* C9: the resolved host is always lowercase: a header value that differs from
\* an allow-listed lowercase host only by letter case is allowed and the
\* attached host is the lowercase form.
C9_ResolvedHostLowercase ==
    (called /\ Fut.host # None) =>
        /\ Unwrap(Fut.host) = ToAsciiLower(Unwrap(Fut.host))
        /\ \A i \in 1..Len(cache) : cache[i].key = ToAsciiLower(cache[i].key)
        /\ OnAllowList(ToAsciiLower(Unwrap(Fut.host))) =>
              (Allowed /\ ext = Some(ToAsciiLower(Unwrap(Fut.host))))

\* C10: a layer with the cache enabled gives every request of every sequence
\* the same outcome (allowed with the same attached host, blocked with the same
\* host, or unresolved) as the same layer with the cache disabled.
C10_CacheTransparent ==
    called =>
        /\ Fut = Unwrap(plain).fut
        /\ ext = Unwrap(plain).ext
        /\ polled => result = Some(poll(Unwrap(plain).fut, [kind |-> "Ok"]))

\* a blocked host whose decision was read from a full cache of capacity 2
C10_Witness ==
    /\ polled
    /\ layer.cache = Some(2)
    /\ Len(cache) = 2
    /\ hit
    /\ result = Some([kind |-> "HostNotAllowed", host |-> Unwrap(Fut.host)])
    /\ ext = None

\* the entries other than the one of the key, in their order
OtherEntries(entries, key) == SelectSeq(entries, LAMBDA e : e.key # key)

\* the capacity of the cache of the layer (0 without a cache)
Cap == IF layer.cache = None THEN 0 ELSE Unwrap(layer.cache)

\* the step of a call that resolved the host `key`: a key of the cache moves to
\* the front, a new key goes to the front and, if the cache was full, only the
\* entry at the back, the least recently used one, goes
UsesCache(key) ==
    IF \E i \in 1..Len(cache) : cache[i].key = key
    THEN /\ hit'
         /\ Len(cache') = Len(cache)
         /\ cache'[1].key = key
         /\ OtherEntries(cache', key) = OtherEntries(cache, key)
         /\ evicted' = None
    ELSE /\ ~hit'
         /\ cache'[1].key = key
         /\ Tail(cache') = IF Len(cache) < Cap THEN cache
                           ELSE SubSeq(cache, 1, Len(cache) - 1)
         /\ evicted' = IF Len(cache) < Cap THEN None ELSE Some(cache[Len(cache)].key)

CacheStep ==
    /\ Len(cache') <= Cap
    /\ IF pc = "idle" /\ pc' = "called" /\ Cap > 0 /\ Unwrap(fut').host # None
       THEN UsesCache(Unwrap(Unwrap(fut').host))
       ELSE cache' = cache

\* C11: the cache never holds more than cap entries; a call that resolves a
\* cached host moves its entry to the front (a hit is a use), a call that
\* resolves a new host puts it at the front and, when the cache is full, drops
\* exactly the entry at the back, the least recently used one.
C11_LruEviction == [][CacheStep]_vars

\* a call on a full cache of capacity 2 dropped a key to insert a new host
C11_Witness ==
    /\ called
    /\ layer.cache = Some(2)
    /\ Len(cache) = 2
    /\ ~hit
    /\ evicted # None
    /\ cache[1].key = Unwrap(Fut.host)

\* the return of the call of clone t on the layer with its cache disabled
Uncached(t) == call(Unwrap(threads[t].headers), disable_cache(layer), <<>>)

\* the lock() of the lookup or of the insert of the call of clone t failed
LockFailed(t) == threads[t].lookup = "failed" \/ threads[t].insert = "failed"

LockFailureIsMiss ==
    \A t \in 1..NThreads :
        (threads[t].pc = "done" /\ LockFailed(t)) =>
            /\ threads[t].lookup # "hit"
            /\ threads[t].fut = Some(Uncached(t).fut)
            /\ threads[t].ext = Uncached(t).ext

\* C12: a call whose lock() fails at the lookup or at the insert is handled as
\* a cache miss: its future and its attached host are those of the call on the
\* layer without a cache, and no step changes the cache of a poisoned Mutex.
C12_PoisonedLockIsMiss == []LockFailureIsMiss /\ [][poisoned => cache' = cache]_vars

\* the lock failed at the lookup and at the insert of a call, beside a filled
\* cache: the matchers decided and the host is allowed and attached
C12_Witness ==
    \E t \in 1..NThreads :
        /\ threads[t].pc = "done"
        /\ threads[t].lookup = "failed"
        /\ threads[t].insert = "failed"
        /\ cache # <<>>
        /\ Unwrap(threads[t].fut).host_allowed
        /\ threads[t].ext = Unwrap(threads[t].fut).host

\* C13: lookup, matcher evaluation and insert of a call are one critical
\* section: no two calls are at the same time between a lookup that missed and
\* the insert, so the matchers are never asked twice at a time for one host.
C13_SingleCriticalSection ==
    \A t, u \in 1..NThreads :
        (/\ t # u
         /\ threads[t].pc = "miss"
         /\ threads[t].lookup = "miss") => threads[u].pc # "miss"

\* the entries of the map whose key, and those whose value, the pair matches
KeyEntries(m, values) == {k \in DOMAIN values : matches_value(m.key_matcher, k)}
ValueEntries(m, values) == {k \in DOMAIN values : matches_value(m.value_matcher, values[k])}

\* C20: the pair matcher (key_matcher, value_matcher) matches a map iff one
\* entry has a key that key_matcher matches and a value that value_matcher
\* matches; a key in one entry and a value in another do not make a match, and
\* the empty map never matches.
C20_PairMatchesOneEntry ==
    (kv # None /\ Unwrap(kv).matcher.kind = "Pair") =>
        /\ Unwrap(kv).result <=>
               (KeyEntries(Unwrap(kv).matcher, Unwrap(kv).values)
                    \cap ValueEntries(Unwrap(kv).matcher, Unwrap(kv).values)) # {}
        /\ DOMAIN Unwrap(kv).values = {} => ~Unwrap(kv).result

\* the key by is in one entry, the value c in another: no match
C20_Witness ==
    /\ kv # None
    /\ Unwrap(kv).matcher = Pair(Exact(sby), Exact(sc))
    /\ DOMAIN Unwrap(kv).values = {sby, ssig}
    /\ Unwrap(kv).values[sby] = sa
    /\ Unwrap(kv).values[ssig] = sc
    /\ ~Unwrap(kv).result

\* the `key=value` parts of one Forwarded entry
EntryPairs(entry) ==
    SelectSeq([i \in 1..Len(Split(entry, ";")) |-> SplitOnce(Split(entry, ";")[i], "=")],
              LAMBDA part : part # None)

\* the parameter map of one Forwarded entry: keys trimmed and lower-cased,
\* values trimmed and unquoted, the first part of a key taken
EntryParams(entry) ==
    LET pairs == EntryPairs(entry)
        key(i) == ToAsciiLower(Trim(Unwrap(pairs[i])[1]))
    IN  [k \in {key(i) : i \in 1..Len(pairs)} |->
            TrimQuotes(Trim(Unwrap(pairs[CHOOSE i \in 1..Len(pairs) :
                                             /\ key(i) = k
                                             /\ \A j \in 1..(i - 1) : key(j) # k])[2]))]

\* the entries of all Forwarded headers of the request
ForwardedEntries ==
    UNION {{Split(Headers.forwarded[i], ",")[j] :
                j \in 1..Len(Split(Headers.forwarded[i], ","))} :
           i \in 1..Len(Headers.forwarded)}

shost == <<"h", "o", "s", "t">>

\* the trust matcher that the layer is to be configured with
TrustMatcher == Pair(Exact(sby), Exact(sc))

\* C14: with a trust matcher configured and use_forwarded, a host resolved from
\* the Forwarded headers is the host of an entry whose own parameter map the
\* trust matcher matches.
C14_TrustedEntryOnly ==
    (called /\ ForwardedWins) =>
        \E entry \in ForwardedEntries :
            /\ shost \in DOMAIN EntryParams(entry)
            /\ ResolveValue(Some(EntryParams(entry)[shost])) = Fut.host
            /\ matches_key_value(TrustMatcher, EntryParams(entry))

\* C15: an HTTP/2 or HTTP/3 request with an :authority and a Host header of
\* another value fails to resolve and is never allowed.
C15_AuthorityHostMismatch ==
    (/\ called
     /\ Headers.version \in {"HTTP/2", "HTTP/3"}
     /\ Headers.uri # None
     /\ Headers.host # <<>>
     /\ Headers.host[1] # Unwrap(Headers.uri)) => (Fut.host = None /\ Rejected)

C17_BlockedSkipsInner ==
    (called /\ ~Allowed) =>
        /\ ~inner.called
        /\ ~inner.polled
        /\ polled => result = Some(IF Fut.host = None
                                   THEN [kind |-> "FailedToResolveHost"]
                                   ELSE [kind |-> "HostNotAllowed",
                                         host |-> Unwrap(Fut.host)])

\* C18: the request handed to the inner service carries the Host extension,
\* holding the resolved host, iff the host is allowed, whether the decision was
\* read from the cache or made by the matchers; a blocked or unresolved request
\* carries none.
C18_HostAttachedIffAllowed ==
    called =>
        /\ (ext # None) <=> Allowed
        /\ Allowed => ext = Fut.host
        /\ hit => Fut.host # None

\* an allowed host whose decision was read from the cache, with the extension
\* attached, in a cache that also remembers a blocked host
C18_Witness ==
    /\ called
    /\ hit
    /\ Allowed
    /\ ext = Fut.host
    /\ \E i \in 1..Len(cache) : ~cache[i].value

\* whether the first value of a present header is not a bare authority
InvalidFirst(v) == v # None /\ ResolveValue(v) = None

\* C19: when the header of the enabled source that is asked first among those
\* present carries an empty or invalid host value, the request does not
\* resolve: no lower-priority source is asked.
C19_PresentInvalidRejected ==
    (/\ called
     /\ \/ layer.use_forwarded /\ InvalidFirst(FirstForwardedValue(Headers.forwarded))
        \/ /\ ~ForwardedWins
           /\ layer.use_x_forwarded_host
           /\ InvalidFirst(FirstCommaValue(Headers.x_forwarded_host))
        \/ /\ ~ForwardedWins
           /\ ~XForwardedHostWins
           /\ InvalidFirst(FirstCommaValue(Headers.host))) => Unresolved

\* C21: for all matchers L and R and every input, a string or a parameter map,
\* And::new(L, R) matches iff L matches and R matches, Or::new(L, R) matches
\* iff L matches or R matches, swapping L and R changes neither answer, and
\* And::new(L, L) and Or::new(L, L) answer what L answers.
C21_AndOrAlgebra ==
    kv # None =>
        LET k == Unwrap(kv)
        IN  /\ k.and_result <=> (k.left_result /\ k.right_result)
            /\ k.or_result <=> (k.left_result \/ k.right_result)
            /\ k.and_swapped <=> k.and_result
            /\ k.or_swapped <=> k.or_result
            /\ k.and_self <=> k.left_result
            /\ k.or_self <=> k.left_result

\* two pair matchers asked about a parameter map that only the left one
\* matches: And of them does not match, Or of them does
C21_Witness ==
    /\ kv # None
    /\ Unwrap(kv).key_value
    /\ Unwrap(kv).left.kind = "Pair"
    /\ Unwrap(kv).right.kind = "Pair"
    /\ Unwrap(kv).left_result
    /\ ~Unwrap(kv).right_result
    /\ ~Unwrap(kv).and_result
    /\ Unwrap(kv).or_result

\* C22: under every interleaving of the calls of clones that share one cache,
\* each entry of the cache holds the decision of the matchers for its host, and
\* a call that read its decision from the cache has the decision the matchers
\* make: a hit allows no host they block and blocks no host they allow.
C22_CacheCoherent ==
    /\ \A i \in 1..Len(cache) : cache[i].value <=> OnAllowList(cache[i].key)
    /\ \A t \in 1..NThreads :
           threads[t].lookup = "hit" =>
               (Unwrap(threads[t].fut).host_allowed
                    <=> OnAllowList(Unwrap(Unwrap(threads[t].fut).host)))

\* a clone reads the blocked decision of a host from the cache while another
\* clone, whose lookup of the same host missed, has not yet inserted
C22_Witness ==
    \E t, u \in 1..NThreads :
        /\ threads[t].pc = "done"
        /\ threads[t].lookup = "hit"
        /\ ~Unwrap(threads[t].fut).host_allowed
        /\ threads[u].pc = "miss"
        /\ threads[u].lookup = "miss"
        /\ threads[u].headers = threads[t].headers
        /\ \E i \in 1..Len(cache) : cache[i].value

====
